---- MODULE Spec2Model ----
(***************************************************************************)
(* Model of the custom SSE transport of the Moralis MCP server             *)
(* (src/src/web-server.ts): the session table `transports`, the            *)
(* CustomSSETransport objects with their event streams, the close and      *)
(* error events of a connection, and the Express handlers GET /health,     *)
(* GET /sse and POST /api/messages.                                        *)
(*                                                                         *)
(* Node runs every handler to its first real suspension point without      *)
(* interleaving: one action is one such run.  The only suspension point    *)
(* of the program that waits on the outside world is the `await handler`   *)
(* of routeRequest (a capability invocation), so a POST is two steps:      *)
(* PostMessages (up to that await) and HandlerSettles (from it to the      *)
(* end of the POST handler).                                               *)
(***************************************************************************)
EXTENDS Naturals, Integers, Sequences, FiniteSets, TLC

\* ---------------------------------------------------------------- bounds
MaxConns == 2          \* GET /sse requests in one run
MaxPosts == 2          \* POST /api/messages requests in one run

\* ------------------------------------------------------------- constants
Absent == "undefined"                  \* a JSON member that is not there
NoSessionId == 0                       \* req.query.sessionId missing
NoTransport == 0                       \* transports[sessionId] === undefined
NoPost == 0                            \* an event no POST is answered by
MessageUrl == "/api/messages"
InternalError == -32603
InvalidParams == -32602

Registered == {"tools/list", "tools/call"}     \* server._requestHandlers
\* The imported configuration object; this module only reads it.
Config == [SERVER_NAME |-> "Config.SERVER_NAME",
           SERVER_VERSION |-> "Config.SERVER_VERSION"]
Tokens == {"key1"}
\* The x-api-key headers of AuthSpec: two keys, and no header at all.
Credentials == {"key1", "key2", Absent}
Outcomes == {"returns", "throwsError"}        \* how an invoked handler settles

VARIABLES
    uuids,        \* number of identifiers uuid() has generated
    conns,        \* the CustomSSETransport objects, in creation order
    transports,   \* the session table: sessionId -> index into conns
    posts,        \* the POST /api/messages calls, in arrival order; `outcome`
                  \* records how the handler a call invoked has settled
    health        \* the body of the last reply of GET /health

vars == <<uuids, conns, transports, posts, health>>

\* ------------------------------------------------------------- messages
NoError == [present |-> FALSE, code |-> 0, message |-> ""]

Message(id, method, result, error) ==
    [jsonrpc |-> "2.0", id |-> id, method |-> method,
     result |-> result, error |-> error]

NoMessage == [jsonrpc |-> Absent, id |-> Absent, method |-> Absent,
              result |-> Absent, error |-> NoError]

\* The bodies a client may post.
Requests == {Message("a", "tools/list", Absent, NoError),
             Message("b", "tools/call", Absent, NoError),
             Message("b", "unknownThing", Absent, NoError)}
Notifications == {Message(Absent, "notifications/initialized", Absent, NoError)}
Malformed == {[Message("a", "tools/list", Absent, NoError) EXCEPT !.jsonrpc = "1.0"]}
Bodies == Requests \cup Notifications \cup Malformed
\* Schema-valid messages with an id and no method: a response and an error.
Replies == {Message("r", Absent, "result", NoError),
            Message("r", Absent, Absent,
                    [present |-> TRUE, code |-> 1, message |-> "failed"])}

\* The bodies posted with a sessionId that is missing or not in the table.
ProbeBodies == {Message("a", "tools/list", Absent, NoError),
                [Message("a", "tools/list", Absent, NoError) EXCEPT !.jsonrpc = "1.0"]}

\* Mutant of JSONRPCMessageSchemaParses: no validation.
JSONRPCMessageSchemaParses_Anything(body) == TRUE

\* JSONRPCMessageSchema.parse: the union of request, notification, response
\* and error; TRUE when parse returns, FALSE when it throws.
JSONRPCMessageSchemaParses(body) ==
    /\ body.jsonrpc = "2.0"
    /\ \/ body.method # Absent
       \/ body.id # Absent /\ (body.result # Absent) # body.error.present

\* --------------------------------------------------------------- events
Event(event, url, sessionId, message, post) ==
    [event |-> event, url |-> url, sessionId |-> sessionId,
     message |-> message, post |-> post]

\* Mutant of uuid: an identifier that repeats.
uuid_Constant(n) == 1

\* uuid(): a version-4 identifier, different from every one generated before.
uuid(n) == n + 1

\* ------------------------------------------------------- CustomSSETransport
CustomSSETransport(sessionId) ==
    [sessionId |-> sessionId, destroyed |-> FALSE, closeEmitted |-> FALSE,
     server |-> FALSE, stream |-> <<>>]

connectToServer(t) == [t EXCEPT !.server = TRUE]

writeSSE(t, ev) ==
    IF ~t.destroyed THEN [t EXCEPT !.stream = Append(@, ev)] ELSE t

\* Mutant of send: the message is never written.
send_NoWrite(t, message, post) == [threw |-> t.destroyed, t |-> t]

\* Mutant of send: the response is written without looking at `destroyed`.
send_Unchecked(t, message, post) ==
    [threw |-> FALSE,
     t |-> [t EXCEPT !.stream =
                Append(@, Event("message", "", NoSessionId, message, post))]]

\* send: [threw, t]
send(t, message, post) ==
    IF t.destroyed
    THEN [threw |-> TRUE, t |-> t]
    ELSE [threw |-> FALSE,
          t |-> writeSSE(t, Event("message", "", NoSessionId, message, post))]

Welcome == Message(Absent, "notification", Absent, NoError)

\* Mutant of start: the session event is written before the endpoint event.
start_SessionFirst(t) ==
    IF t.destroyed
    THEN [threw |-> TRUE, t |-> t]
    ELSE LET t1 == writeSSE(t, Event("session", "", t.sessionId, NoMessage, NoPost))
             t2 == writeSSE(t1, Event("endpoint", MessageUrl, t.sessionId, NoMessage, NoPost))
         IN  send(t2, Welcome, NoPost)

\* start: [threw, t]
start(t) ==
    IF t.destroyed
    THEN [threw |-> TRUE, t |-> t]
    ELSE LET t1 == writeSSE(t, Event("endpoint", MessageUrl, t.sessionId, NoMessage, NoPost))
             t2 == writeSSE(t1, Event("session", "", t.sessionId, NoMessage, NoPost))
         IN  send(t2, Welcome, NoPost)

\* Mutant of onclose: the entry is not deleted.
onclose_NoDelete(tr, t) == tr

\* Mutant of onclose: closing one stream empties the table.
onclose_Everything(tr, t) == [k \in {} |-> NoTransport]

\* The table after the onclose callback of transport t has run.
onclose(tr, t) ==
    [k \in DOMAIN tr \ {t.sessionId} |-> tr[k]]

\* Mutant of onerror: the entry is not deleted.
onerror_NoDelete(tr, t) == tr

\* The table after the onerror callback of transport t has run.
onerror(tr, t) ==
    [k \in DOMAIN tr \ {t.sessionId} |-> tr[k]]

\* Mutant of register: the transport is not stored.
register_Nothing(tr, sessionId, c) == tr

\* transports[transport.sessionId] = transport
register(tr, sessionId, c) ==
    [k \in DOMAIN tr \cup {sessionId} |-> IF k = sessionId THEN c ELSE tr[k]]

\* Mutant of lookup: an unknown sessionId falls back to some live session.
lookup_Fallback(tr, sessionId) ==
    IF sessionId \in DOMAIN tr THEN tr[sessionId]
    ELSE IF DOMAIN tr # {} THEN tr[CHOOSE k \in DOMAIN tr : TRUE]
    ELSE NoTransport

\* transports[sessionId], NoTransport when there is no such key.
lookup(tr, sessionId) ==
    IF sessionId \in DOMAIN tr THEN tr[sessionId] ELSE NoTransport

\* Mutant of UnknownMethod: another wording of the error.
UnknownMethod_NotFound(method) == "Method not found"

UnknownMethod(method) ==
    CASE method = "unknownThing" -> "Unknown method: unknownThing"
      [] method = "tools/list" -> "Unknown method: tools/list"
      [] method = "tools/call" -> "Unknown method: tools/call"
      [] OTHER -> "Unknown method: undefined"

\* routeRequest up to its await: the handler it invokes, or the error thrown.
routeRequest(t, request) ==
    IF ~t.server
    THEN [invokes |-> Absent, error |-> "MCP server not connected"]
    ELSE IF request.method = "tools/list" /\ "tools/list" \in Registered
    THEN [invokes |-> "tools/list", error |-> ""]
    ELSE IF request.method = "tools/call" /\ "tools/call" \in Registered
    THEN [invokes |-> "tools/call", error |-> ""]
    ELSE [invokes |-> Absent, error |-> UnknownMethod(request.method)]

\* What a handler settles with: its result (JSON-serialisable, as the
\* protocol's result schemas require), or the message of what it threw.
HandlerResult(method) ==
    IF method = "tools/list" THEN "tools" ELSE "content"

\* Mutant of Thrown: the failure's own message is lost.
Thrown_Generic(outcome) == "Internal error"

Thrown(outcome) ==
    IF outcome = "throwsError" THEN "Moralis API request failed" ELSE "Internal error"

\* Mutant of SuccessResponse: the request's id is not echoed.
SuccessResponse_NoId(request, result) ==
    Message(Absent, Absent, result, NoError)

SuccessResponse(request, result) ==
    Message(request.id, Absent, result, NoError)

\* Mutant of ErrorResponse: the error response carries a result member too.
ErrorResponse_WithResult(request, text) ==
    Message(request.id, Absent, "null",
            [present |-> TRUE, code |-> InternalError, message |-> text])

ErrorResponse(request, text) ==
    Message(request.id, Absent, Absent,
            [present |-> TRUE, code |-> InternalError, message |-> text])

\* Mutant of expectsResponse: keyed on the method instead of the id.
expectsResponse_Method(message) == message.method # Absent

\* Mutant of expectsResponse: only a message shaped like a request is one.
expectsResponse_RequestShaped(message) ==
    message.id # Absent /\ message.method # Absent

\* `'id' in message && message.id !== undefined`
expectsResponse(message) == message.id # Absent

\* Mutant of deliver: the response goes to every open stream.
deliver_Broadcast(tr, cs, c, response, post) ==
    [threw |-> FALSE,
     transports |-> IF cs[c].destroyed THEN onerror(tr, cs[c]) ELSE tr,
     conns |-> [k \in DOMAIN cs |-> send(cs[k], response, post).t]]

\* Mutant of deliver: onerror runs after every send, failed or not.
deliver_AlwaysOnerror(tr, cs, c, response, post) ==
    LET s == send(cs[c], response, post)
    IN  [threw |-> FALSE, transports |-> onerror(tr, cs[c]),
         conns |-> [cs EXCEPT ![c] = s.t]]

\* Mutant of deliver: no outer catch, what send throws leaves handleMessage.
deliver_NoCatch(tr, cs, c, response, post) ==
    LET s == send(cs[c], response, post)
    IN  [threw |-> s.threw, transports |-> tr, conns |-> [cs EXCEPT ![c] = s.t]]

\* handleMessage from `await this.send(response)` to its end: the send, and
\* the outer catch, which calls onerror when send throws and lets nothing
\* out.  [threw, transports, conns]
deliver(tr, cs, c, response, post) ==
    LET s == send(cs[c], response, post)
    IN  [threw |-> FALSE,
         transports |-> IF s.threw THEN onerror(tr, cs[c]) ELSE tr,
         conns |-> [cs EXCEPT ![c] = s.t]]

Reply(status, code, message) ==
    [status |-> status, code |-> code, message |-> message]

NoReply == Reply(0, 0, "")
Accepted == Reply(202, 0, "Accepted")
\* Mutant of MissingSessionId: answered like an unknown session.
MissingSessionId_NotFound ==
    Reply(404, InvalidParams, "No active session found with the provided sessionId")

MissingSessionId == Reply(400, InvalidParams, "Missing sessionId query parameter")
NoActiveSession ==
    Reply(404, InvalidParams, "No active session found with the provided sessionId")
ErrorProcessing == Reply(500, InternalError, "Internal error processing message")

\* What a handler is called with besides the request; nothing when no
\* handler is called.
NoAuthInfo == [passed |-> FALSE, token |-> Absent]

\* Mutant of authInfo: the credential is kept in one place for all requests,
\* so a handler is called with that of the POST before.
authInfo_Previous(token) ==
    [passed |-> TRUE,
     token |-> IF posts # <<>> THEN posts[Len(posts)].token ELSE token]

\* `{ token: req.headers['x-api-key'] }`, passed on as `{ authInfo }`.
authInfo(token) == [passed |-> TRUE, token |-> token]

Post(sessionId, body, token, c, pc, reply, invoked) ==
    [sessionId |-> sessionId, body |-> body, token |-> token, transport |-> c,
     pc |-> pc, reply |-> reply, invoked |-> invoked, outcome |-> Absent,
     authInfo |-> IF invoked = 1 THEN authInfo(token) ELSE NoAuthInfo]

\* The body res.json sends for GET /health.
HealthBody ==
    [status |-> "OK", server |-> Config.SERVER_NAME,
     version |-> Config.SERVER_VERSION]

NoHealth == [status |-> Absent, server |-> Absent, version |-> Absent]

Init ==
    /\ uuids = 0
    /\ conns = <<>>
    /\ transports = <<>>
    /\ posts = <<>>
    /\ health = NoHealth

\* Mutant of GetHealth: the probe also sweeps the session table.
GetHealth_Sweep ==
    /\ health' = HealthBody
    /\ transports' = <<>>
    /\ UNCHANGED <<uuids, conns, posts>>

\* GET /health
GetHealth ==
    /\ health' = HealthBody
    /\ UNCHANGED <<uuids, conns, transports, posts>>

\* GET /sse
GetSse ==
    /\ Len(conns) < MaxConns
    /\ LET sessionId == uuid(uuids)
           c == Len(conns) + 1
           t == connectToServer(CustomSSETransport(sessionId))
       IN  /\ uuids' = uuids + 1
           /\ transports' = register(transports, sessionId, c)
           /\ conns' = Append(conns, start(t).t)
    /\ UNCHANGED <<posts, health>>

\* The 'close' event of a connection's response.
ResponseClose(c) ==
    /\ c \in DOMAIN conns
    /\ ~conns[c].closeEmitted
    /\ conns' = [conns EXCEPT ![c].destroyed = TRUE, ![c].closeEmitted = TRUE]
    /\ transports' = onclose(transports, conns[c])
    /\ UNCHANGED <<uuids, posts, health>>

\* The 'error' event of a connection's response.
ResponseError(c) ==
    /\ c \in DOMAIN conns
    /\ ~conns[c].destroyed
    /\ conns' = [conns EXCEPT ![c].destroyed = TRUE]
    /\ transports' = onerror(transports, conns[c])
    /\ UNCHANGED <<uuids, posts, health>>

\* Mutant of PostMessages: the body is validated before the sessionId is
\* looked at.
PostMessages_ParseFirst(sessionId, body, token) ==
    /\ Len(posts) < MaxPosts
    /\ LET p == Len(posts) + 1
           c == lookup(transports, sessionId)
           rejected(reply) ==
               /\ posts' = Append(posts, Post(sessionId, body, token, c, "done", reply, 0))
               /\ UNCHANGED <<conns, transports>>
       IN  IF ~JSONRPCMessageSchemaParses(body) THEN rejected(ErrorProcessing)
           ELSE IF sessionId = NoSessionId THEN rejected(MissingSessionId)
           ELSE IF c = NoTransport THEN rejected(NoActiveSession)
           ELSE IF ~conns[c].server THEN rejected(ErrorProcessing)
           ELSE IF ~expectsResponse(body)
           THEN /\ posts' = Append(posts, Post(sessionId, body, token, c, "done", Accepted, 0))
                /\ UNCHANGED <<conns, transports>>
           ELSE LET route == routeRequest(conns[c], body)
                IN  IF route.invokes # Absent
                    THEN /\ posts' = Append(posts, Post(sessionId, body, token, c,
                                                        "awaitHandler", NoReply, 1))
                         /\ UNCHANGED <<conns, transports>>
                    ELSE LET d == deliver(transports, conns, c,
                                          ErrorResponse(body, route.error), p)
                         IN  /\ posts' = Append(posts, Post(sessionId, body, token, c, "done",
                                     IF d.threw THEN ErrorProcessing ELSE Accepted, 0))
                             /\ conns' = d.conns
                             /\ transports' = d.transports
    /\ UNCHANGED <<uuids, health>>

\* POST /api/messages, up to the await of the invoked handler or to its reply.
PostMessages(sessionId, body, token) ==
    /\ Len(posts) < MaxPosts
    /\ LET p == Len(posts) + 1
           c == lookup(transports, sessionId)
           rejected(reply) ==
               /\ posts' = Append(posts, Post(sessionId, body, token, c, "done", reply, 0))
               /\ UNCHANGED <<conns, transports>>
       IN  IF sessionId = NoSessionId THEN rejected(MissingSessionId)
           ELSE IF c = NoTransport THEN rejected(NoActiveSession)
           ELSE IF ~JSONRPCMessageSchemaParses(body) THEN rejected(ErrorProcessing)
           ELSE IF ~conns[c].server THEN rejected(ErrorProcessing)
           ELSE IF ~expectsResponse(body)
           THEN /\ posts' = Append(posts, Post(sessionId, body, token, c, "done", Accepted, 0))
                /\ UNCHANGED <<conns, transports>>
           ELSE LET route == routeRequest(conns[c], body)
                IN  IF route.invokes # Absent
                    THEN /\ posts' = Append(posts, Post(sessionId, body, token, c,
                                                        "awaitHandler", NoReply, 1))
                         /\ UNCHANGED <<conns, transports>>
                    ELSE LET d == deliver(transports, conns, c,
                                          ErrorResponse(body, route.error), p)
                         IN  /\ posts' = Append(posts, Post(sessionId, body, token, c, "done",
                                     IF d.threw THEN ErrorProcessing ELSE Accepted, 0))
                             /\ conns' = d.conns
                             /\ transports' = d.transports
    /\ UNCHANGED <<uuids, health>>

\* Mutant of HandlerSettles: responses are tracked by request id, and a
\* request whose id has been answered before is not answered again.
HandlerSettles_Dedup(p, outcome) ==
    /\ p \in DOMAIN posts
    /\ posts[p].pc = "awaitHandler"
    /\ LET request == posts[p].body
           response == IF outcome = "returns"
                       THEN SuccessResponse(request, HandlerResult(request.method))
                       ELSE ErrorResponse(request, Thrown(outcome))
           d == deliver(transports, conns, posts[p].transport, response, p)
           dup == \E q \in DOMAIN posts \ {p} :
                     posts[q].body.id = request.id /\ posts[q].outcome # Absent
       IN  /\ conns' = IF dup THEN conns ELSE d.conns
           /\ transports' = IF dup THEN transports ELSE d.transports
           /\ posts' = [posts EXCEPT ![p].pc = "done",
                                     ![p].outcome = outcome,
                                     ![p].reply = Accepted]
    /\ UNCHANGED <<uuids, health>>

\* Mutant of HandlerSettles: the response is built when the handler settles
\* and the request stays pending.
HandlerSettles_StaysPending(p, outcome) ==
    /\ p \in DOMAIN posts
    /\ posts[p].pc = "awaitHandler"
    /\ posts[p].outcome = Absent
    /\ posts' = [posts EXCEPT ![p].outcome = outcome]
    /\ UNCHANGED <<uuids, conns, transports, health>>

\* Mutant of HandlerSettles: a handler that throws is invoked again.
HandlerSettles_Retry(p, outcome) ==
    /\ p \in DOMAIN posts
    /\ posts[p].pc = "awaitHandler"
    /\ LET request == posts[p].body
           response == SuccessResponse(request, HandlerResult(request.method))
           d == deliver(transports, conns, posts[p].transport, response, p)
       IN  IF outcome = "returns"
           THEN /\ conns' = d.conns
                /\ transports' = d.transports
                /\ posts' = [posts EXCEPT ![p].pc = "done",
                                          ![p].outcome = outcome,
                                          ![p].reply = Accepted]
           ELSE /\ posts' = [posts EXCEPT ![p].invoked = @ + 1,
                                          ![p].outcome = outcome]
                /\ UNCHANGED <<conns, transports>>
    /\ UNCHANGED <<uuids, health>>

\* Mutant of HandlerSettles: a response waits for those of all earlier POSTs.
HandlerSettles_InOrder(p, outcome) ==
    /\ p \in DOMAIN posts
    /\ posts[p].pc = "awaitHandler"
    /\ \A q \in 1 .. (p - 1) : posts[q].pc = "done"
    /\ LET request == posts[p].body
           response == IF outcome = "returns"
                       THEN SuccessResponse(request, HandlerResult(request.method))
                       ELSE ErrorResponse(request, Thrown(outcome))
           d == deliver(transports, conns, posts[p].transport, response, p)
       IN  /\ conns' = d.conns
           /\ transports' = d.transports
           /\ posts' = [posts EXCEPT ![p].pc = "done",
                                     ![p].outcome = outcome,
                                     ![p].reply = Accepted]
    /\ UNCHANGED <<uuids, health>>

\* The invoked handler settles: the rest of handleMessage and of the POST.
HandlerSettles(p, outcome) ==
    /\ p \in DOMAIN posts
    /\ posts[p].pc = "awaitHandler"
    /\ LET request == posts[p].body
           response == IF outcome = "returns"
                       THEN SuccessResponse(request, HandlerResult(request.method))
                       ELSE ErrorResponse(request, Thrown(outcome))
           d == deliver(transports, conns, posts[p].transport, response, p)
       IN  /\ conns' = d.conns
           /\ transports' = d.transports
           /\ posts' = [posts EXCEPT ![p].pc = "done",
                                     ![p].outcome = outcome,
                                     ![p].reply = IF d.threw THEN ErrorProcessing
                                                  ELSE Accepted]
    /\ UNCHANGED <<uuids, health>>

SessionIds == 0 .. MaxConns + 1

\* A client's POST: any body to a session of the table; a probe body with no
\* sessionId, with one that was issued and removed, or with one never issued.
Submit(sessionId, body, token) ==
    /\ \/ sessionId \in DOMAIN transports
       \/ /\ body \in ProbeBodies
          /\ sessionId \in {NoSessionId, MaxConns + 1} \cup (1 .. uuids)
    /\ PostMessages(sessionId, body, token)

Next ==
    \/ GetSse
    \/ \E c \in 1 .. MaxConns : ResponseClose(c)
    \/ \E c \in 1 .. MaxConns : ResponseError(c)
    \/ \E s \in SessionIds, b \in Bodies, k \in Tokens : Submit(s, b, k)
    \/ \E p \in 1 .. MaxPosts, o \in Outcomes : HandlerSettles(p, o)

Spec == Init /\ [][Next]_vars

\* The sessions and requests of Spec together with the health probe.  GetHealth
\* changes `health` only and no other action reads `health`, so Spec shows
\* the same sessions, streams and requests as HealthSpec.
HealthNext == GetHealth \/ Next

HealthSpec == Init /\ [][HealthNext]_vars

\* Sessions whose requests for a tool call come with different x-api-key
\* headers, or with none.
AuthBodies == {b \in Requests : b.method = "tools/call"}

AuthNext ==
    \/ GetSse
    \/ \E c \in 1 .. MaxConns : ResponseClose(c)
    \/ \E c \in 1 .. MaxConns : ResponseError(c)
    \/ \E s \in SessionIds, b \in AuthBodies, k \in Credentials : Submit(s, b, k)
    \/ \E p \in 1 .. MaxPosts, o \in Outcomes : HandlerSettles(p, o)

AuthSpec == Init /\ [][AuthNext]_vars

\* Sessions whose clients post every shape the schema admits: requests,
\* notifications, and responses and errors.
ShapeBodies == AuthBodies \cup Notifications \cup Replies

ShapeNext ==
    \/ GetSse
    \/ \E c \in 1 .. MaxConns : ResponseClose(c)
    \/ \E c \in 1 .. MaxConns : ResponseError(c)
    \/ \E s \in SessionIds, b \in ShapeBodies, k \in Tokens : Submit(s, b, k)
    \/ \E p \in 1 .. MaxPosts, o \in Outcomes : HandlerSettles(p, o)

ShapeSpec == Init /\ [][ShapeNext]_vars

\* ------------------------------------------------------------ the claims
\* The events of all streams, as <<connection, position>> pairs.
Written == UNION {{<<c, i>> : i \in DOMAIN conns[c].stream} : c \in DOMAIN conns}
EventAt(ci) == conns[ci[1]].stream[ci[2]]
\* The events that answer a POST.
Responses == {ci \in Written : EventAt(ci).post # NoPost}
\* The step is the arrival of a new POST.
Arrives == Len(posts') = Len(posts) + 1
Arrived == posts'[Len(posts')]
StreamsUnchanged ==
    /\ DOMAIN conns' = DOMAIN conns
    /\ \A c \in DOMAIN conns : conns'[c].stream = conns[c].stream

\* C1: every response event written for a request carries exactly the id of
\* the request it answers, whether it is a result or an error.
C1_ResponseEchoesId ==
    \A ci \in Responses :
        /\ EventAt(ci).event = "message"
        /\ EventAt(ci).message.id = posts[EventAt(ci).post].body.id

\* C1 witness: a result and an error have been written, for different ids.
C1_Witness ==
    \E ci, cj \in Responses :
        /\ EventAt(ci).message.result # Absent /\ EventAt(ci).message.id = "a"
        /\ EventAt(cj).message.error.present /\ EventAt(cj).message.id = "b"

\* C2: the response to a request submitted with sessionId S is written only
\* to the stream of the session whose identifier is S.
C2_ResponseOnOwnStream ==
    \A ci \in Responses :
        conns[ci[1]].sessionId = posts[EventAt(ci).post].sessionId

\* C2 witness: two sessions are open and each stream holds the response to a
\* request of its own session.
C2_Witness ==
    /\ Len(conns) >= 2 /\ Len(posts) >= 2
    /\ posts[1].sessionId # posts[2].sessionId
    /\ \E ci, cj \in Responses :
        /\ ci[1] # cj[1]
        /\ EventAt(ci).post = 1 /\ EventAt(cj).post = 2
        /\ ~conns[ci[1]].destroyed /\ ~conns[cj[1]].destroyed

C4_AnnouncementOrder ==
    \A c \in DOMAIN conns :
        LET s == conns[c].stream
        IN  /\ Len(s) >= 3
            /\ s[1].event = "endpoint" /\ s[1].url = MessageUrl
            /\ s[1].sessionId = conns[c].sessionId
            /\ s[2].event = "session" /\ s[2].sessionId = conns[c].sessionId
            /\ s[3].event = "message" /\ s[3].message = Welcome
            /\ \A i \in 4 .. Len(s) : s[i].event = "message"

\* C4 witness: a stream that holds a response after its three opening events.
C4_Witness ==
    \E ci \in Responses : ci[2] = 4 /\ EventAt(ci).message.result # Absent

\* C5: while a stream that has its endpoint event is open, the identifier
\* that event announces is a key of the table, for this very transport: a
\* POST with it is not turned away as an unknown session.
C5_AnnouncedIdIsRegistered ==
    \A ci \in Written :
        (EventAt(ci).event = "endpoint" /\ ~conns[ci[1]].destroyed)
        => lookup(transports, EventAt(ci).sessionId) = ci[1]

\* C5 witness: a POST with the announced identifier of an open stream was
\* taken (202) while an older session had already been removed.
C5_Witness ==
    \E p \in DOMAIN posts, ci \in Written :
        /\ EventAt(ci).event = "endpoint" /\ ~conns[ci[1]].destroyed
        /\ posts[p].sessionId = EventAt(ci).sessionId
        /\ posts[p].reply = Accepted
        /\ \E c \in DOMAIN conns : conns[c].destroyed

\* C6: every GET /sse issues an identifier no earlier one issued, so the
\* sessions' identifiers are pairwise different, every key of the table
\* names the transport that carries it, and an entry is never overwritten.
C6_SessionIdsUnique ==
    /\ [](/\ \A c, d \in DOMAIN conns :
                c # d => conns[c].sessionId # conns[d].sessionId
          /\ \A k \in DOMAIN transports :
                transports[k] \in DOMAIN conns /\ conns[transports[k]].sessionId = k)
    /\ [][\A k \in DOMAIN transports \cap DOMAIN transports' :
                transports'[k] = transports[k]]_vars

\* C6 witness: a session was opened after another was opened and closed.
C6_Witness ==
    /\ Len(conns) = MaxConns
    /\ conns[1].closeEmitted
    /\ conns[Len(conns)].sessionId \in DOMAIN transports

\* C7: when the handler of a request settles after the session's stream
\* was closed, no stream is written and the POST is still answered 202.
C7_PostCloseSilence ==
    [][\A p \in DOMAIN posts :
          (/\ posts[p].pc = "awaitHandler" /\ posts'[p].pc = "done"
           /\ conns[posts[p].transport].destroyed)
          => /\ StreamsUnchanged
             /\ posts'[p].reply = Accepted]_vars

\* C7 witness: an invoked request is done, answered 202, its stream is
\* destroyed and holds no response to it.
C7_Witness ==
    \E p \in DOMAIN posts :
        /\ posts[p].pc = "done" /\ posts[p].invoked = 1
        /\ posts[p].reply = Accepted
        /\ conns[posts[p].transport].destroyed
        /\ \A ci \in Responses : EventAt(ci).post # p

\* C8: a valid message without an id, posted to a session of the table,
\* writes no event, invokes no handler and is answered 202.
C8_NotificationUnanswered ==
    [][(Arrives /\ Arrived.sessionId \in DOMAIN transports
                /\ JSONRPCMessageSchemaParses(Arrived.body)
                /\ Arrived.body.id = Absent)
       => /\ Arrived.reply = Accepted
          /\ Arrived.pc = "done" /\ Arrived.invoked = 0
          /\ conns' = conns /\ transports' = transports]_vars

\* C8 witness: a notification was answered 202.
C8_Witness ==
    \E p \in DOMAIN posts :
        /\ posts[p].body \in Notifications
        /\ posts[p].reply = Accepted
        /\ posts[p].transport # NoTransport

\* C9: every POST has its terminal status without waiting for the handler
\* it invoked: there is no state in which a POST is still unanswered.
C9_PostReturnsBeforeHandlerSettles ==
    \A p \in DOMAIN posts : posts[p].reply # NoReply

\* C10: the 202 of a POST is issued before the result or error event of its
\* request is written, and the reply of the POST is never that result.  A
\* step is one uninterrupted run of handler code, so the 202 comes first
\* only if an earlier step issued it: a step that writes a response event
\* finds the POST it answers already answered 202.
C10_AcceptedBeforeResponse ==
    [][\A ci \in Responses' :
          (ci \notin Responses)
          => /\ EventAt(ci)'.post \in DOMAIN posts
             /\ posts[EventAt(ci)'.post].reply = Accepted
             /\ posts'[EventAt(ci)'.post].reply = Accepted]_vars

\* The step is the settling of the handler that POST p invoked.
Settles(p) == posts[p].pc = "awaitHandler" /\ posts'[p].pc = "done"
\* The message event that answers POST p with `message`.
Answer(message, p) == Event("message", "", NoSessionId, message, p)
ErrorOf(id, code, text) ==
    Message(id, Absent, Absent, [present |-> TRUE, code |-> code, message |-> text])
TableUnchanged == transports' = transports

\* C11: a well-formed request with an id that names a method outside the
\* registry, posted to a session of the table, is answered 202 and not
\* rejected, and one error message event with the request's id, a non-zero
\* code and an "Unknown method" message is written to that session's stream.
C11_UnknownMethodAnsweredOnStream ==
    [][(Arrives /\ Arrived.sessionId \in DOMAIN transports
                /\ Arrived.body.jsonrpc = "2.0" /\ Arrived.body.id # Absent
                /\ Arrived.body.method \notin {Absent} \cup Registered)
       => LET c == transports[Arrived.sessionId]
              e == conns'[c].stream[Len(conns'[c].stream)]
          IN  /\ Arrived.reply = Accepted /\ Arrived.pc = "done"
              /\ conns'[c].stream = Append(conns[c].stream, e)
              /\ e.event = "message" /\ e.post = Len(posts')
              /\ e.message.id = Arrived.body.id
              /\ e.message.error.present /\ e.message.error.code # 0
              /\ e.message.error.message = "Unknown method: unknownThing"
              /\ e.message.result = Absent]_vars

\* C11 witness: the error for "unknownThing" is on the stream of an open
\* session and its POST was answered 202.
C11_Witness ==
    \E ci \in Responses :
        /\ posts[EventAt(ci).post].body.method = "unknownThing"
        /\ posts[EventAt(ci).post].reply = Accepted
        /\ EventAt(ci).message.error.message = "Unknown method: unknownThing"
        /\ ~conns[ci[1]].destroyed

\* C12: the error response for an unresolved method has a kind of its own,
\* different from the "internal error" kind of a handler that threw.
C12_MethodNotFoundKindDistinct ==
    \A ci \in Responses :
        (posts[EventAt(ci).post].invoked = 0 /\ EventAt(ci).message.error.present)
        => EventAt(ci).message.error.code # InternalError

C14_MalformedRejected ==
    [][(Arrives /\ Arrived.sessionId \in DOMAIN transports
                /\ Arrived.body \in Malformed)
       => /\ Arrived.reply = ErrorProcessing /\ Arrived.reply.status = 500
          /\ Arrived.pc = "done" /\ Arrived.invoked = 0
          /\ conns' = conns /\ TableUnchanged]_vars

\* C14 witness: a malformed body posted to an open session got the 500.
C14_Witness ==
    \E p \in DOMAIN posts :
        /\ posts[p].body \in Malformed
        /\ posts[p].transport # NoTransport
        /\ posts[p].reply.status = 500

C16_TableHoldsOnlyLiveSessions ==
    \A k \in DOMAIN transports :
        /\ transports[k] \in DOMAIN conns
        /\ ~conns[transports[k]].destroyed
        /\ conns[transports[k]].sessionId = k

\* C16 witness: one session is in the table and took a POST while another
\* one has been destroyed and is gone from the table.
C16_Witness ==
    \E c, d \in DOMAIN conns, p \in DOMAIN posts :
        /\ conns[c].sessionId \in DOMAIN transports
        /\ conns[d].destroyed /\ conns[d].sessionId \notin DOMAIN transports
        /\ posts[p].transport = c /\ posts[p].reply = Accepted

\* C17: every transport whose stream is open has exactly one entry in the
\* session table; a dispatch that failed does not remove it.
C17_OneEntryPerOpenStream ==
    \A c \in DOMAIN conns :
        ~conns[c].destroyed
        => Cardinality({k \in DOMAIN transports : transports[k] = c}) = 1

\* C17 witness: an error response was written to an open stream, whose
\* session is still in the table.
C17_Witness ==
    \E ci \in Responses :
        /\ EventAt(ci).message.error.present
        /\ posts[EventAt(ci).post].outcome = "throwsError"
        /\ ~conns[ci[1]].destroyed
        /\ conns[ci[1]].sessionId \in DOMAIN transports

\* C18: once a connection has closed or erred (so that a send on it fails)
\* its session is out of the table; an identifier that left the table never
\* returns to it, and a POST that uses it is rejected as an unknown session.
C18_RemovedForGood ==
    /\ [](\A c \in DOMAIN conns :
            conns[c].destroyed => conns[c].sessionId \notin DOMAIN transports)
    /\ [][/\ \A k \in 1 .. uuids :
                k \notin DOMAIN transports => k \notin DOMAIN transports'
          /\ (Arrives /\ Arrived.sessionId \in (1 .. uuids) \ DOMAIN transports)
                => Arrived.reply = NoActiveSession]_vars

\* C18 witness: a connection erred, a handler settled on it afterwards, and
\* a POST with its identifier got the 404.
C18_Witness ==
    \E c \in DOMAIN conns, p, q \in DOMAIN posts :
        /\ conns[c].destroyed /\ ~conns[c].closeEmitted
        /\ posts[q].transport = c /\ posts[q].outcome # Absent
        /\ \A ci \in Responses : EventAt(ci).post # q
        /\ posts[p].sessionId = conns[c].sessionId
        /\ posts[p].reply = NoActiveSession

\* Two POSTs of two different sessions whose handlers are both pending.
BothPending(p, q) ==
    /\ p # q
    /\ posts[p].pc = "awaitHandler" /\ posts[q].pc = "awaitHandler"
    /\ posts[p].transport # posts[q].transport

\* C19: of two pending requests of two different sessions either handler
\* can settle first, whichever was posted first, and the one that settles
\* has its response written in that very step, while the other stream and
\* the other request are left as they are.
C19_Independence ==
    /\ [](\A p, q \in DOMAIN posts :
            BothPending(p, q) => \A o \in Outcomes : ENABLED HandlerSettles(q, o))
    /\ [][\A p, q \in DOMAIN posts :
            (BothPending(p, q) /\ Settles(q))
            => LET cp == posts[p].transport
                   cq == posts[q].transport
               IN  /\ posts'[p] = posts[p]
                   /\ conns'[cp] = conns[cp]
                   /\ ~conns[cq].destroyed
                      => /\ Len(conns'[cq].stream) = Len(conns[cq].stream) + 1
                         /\ conns'[cq].stream[Len(conns'[cq].stream)].post = q]_vars

\* C19 witness: the request posted second, on another session, has its
\* response on its stream while the one posted first is still pending.
C19_Witness ==
    /\ Len(posts) >= 2
    /\ posts[1].pc = "awaitHandler" /\ posts[2].pc = "done"
    /\ posts[1].transport # posts[2].transport
    /\ ~conns[posts[1].transport].destroyed
    /\ \E ci \in Responses : EventAt(ci).post = 2 /\ ci[1] = posts[2].transport

\* C20: when the handler of an accepted request settles and the session's
\* stream is open, one message event that answers the request, with its
\* id, is appended to that stream; it carries the handler's result when the
\* handler returned and an error when it threw.
C20_OpenStreamGetsAnswer ==
    [][\A p \in DOMAIN posts :
          (Settles(p) /\ ~conns[posts[p].transport].destroyed)
          => LET c == posts[p].transport
                 e == conns'[c].stream[Len(conns'[c].stream)]
             IN  /\ conns'[c].stream = Append(conns[c].stream, e)
                 /\ e.event = "message" /\ e.post = p
                 /\ e.message.id = posts[p].body.id
                 /\ posts'[p].outcome = "returns"
                    => /\ e.message.result = HandlerResult(posts[p].body.method)
                       /\ ~e.message.error.present
                 /\ posts'[p].outcome # "returns"
                    => /\ e.message.error.present
                       /\ e.message.result = Absent]_vars

\* C20 witness: the result of tools/list is on the open stream of the
\* session it was requested under.
C20_Witness ==
    \E ci \in Responses :
        /\ posts[EventAt(ci).post].body.method = "tools/list"
        /\ EventAt(ci).message.result = "tools"
        /\ EventAt(ci).message.id = "a"
        /\ ~conns[ci[1]].destroyed
        /\ posts[EventAt(ci).post].reply = Accepted

\* C21: the health probe is stateless.  GET /health can be served in every
\* state; the step that serves it replies with the same static status, server
\* and version whatever the state is, and leaves the session table, every
\* stream and every request (the handlers invoked included) as they were.
C21_HealthProbeStateless ==
    /\ [](ENABLED GetHealth)
    /\ [][health' # health
           => /\ health' = [status |-> "OK", server |-> Config.SERVER_NAME,
                            version |-> Config.SERVER_VERSION]
              /\ TableUnchanged
              /\ conns' = conns
              /\ posts' = posts
              /\ uuids' = uuids]_vars

\* The probe was served while a session was registered and a request was in
\* flight on it.
C21_Witness ==
    /\ health = HealthBody
    /\ \E p \in DOMAIN posts :
          /\ posts[p].pc = "awaitHandler"
          /\ posts[p].sessionId \in DOMAIN transports
    /\ \E c \in DOMAIN conns : conns[c].destroyed

\* C22: the session table is changed by the open and close paths only.  An
\* entry appears only in the step that opens its stream; an entry disappears
\* only in the step of the close or error event of its own connection; no
\* entry is ever re-pointed; and every step of the dispatch path (the arrival
\* of a POST, the settling of an invoked handler with the building and
\* sending of its response) leaves the table exactly as it was, the onerror
\* call of the outer catch of handleMessage included.
C22_TableMutatedByOpenAndCloseOnly ==
    [][/\ \A k \in DOMAIN transports' \ DOMAIN transports :
             /\ Len(conns') = Len(conns) + 1
             /\ conns'[Len(conns')].sessionId = k
             /\ transports'[k] = Len(conns')
             /\ posts' = posts
       /\ \A k \in DOMAIN transports \ DOMAIN transports' :
             /\ \/ conns'[transports[k]].destroyed # conns[transports[k]].destroyed
                \/ conns'[transports[k]].closeEmitted # conns[transports[k]].closeEmitted
             /\ posts' = posts
       /\ \A k \in DOMAIN transports \cap DOMAIN transports' :
             transports'[k] = transports[k]
       /\ posts' # posts => TableUnchanged]_vars

\* The dispatch path has run its onerror call (a response that could not be
\* sent) and has answered on an open stream, and the table holds a session.
C22_Witness ==
    /\ DOMAIN transports # {}
    /\ \E p \in DOMAIN posts :
          /\ posts[p].outcome # Absent
          /\ conns[posts[p].transport].destroyed
          /\ \A ci \in Responses : EventAt(ci).post # p
    /\ \E ci \in Responses : posts[EventAt(ci).post].outcome # Absent

\* The step runs a callback that removes the session of connection c from
\* the table: onclose at the 'close' event, onerror at the 'error' event
\* and in the outer catch of handleMessage when the send of a response throws.
RunsClosureCallback(c) ==
    \/ ResponseClose(c)
    \/ ResponseError(c)
    \/ \E p \in DOMAIN posts, o \in Outcomes :
          /\ posts[p].transport = c
          /\ conns[c].destroyed
          /\ HandlerSettles(p, o)
\* A removing callback of connection c has run: the response is destroyed by
\* its 'close' and 'error' events only, and each of them runs one.
ClosureCallbackRan(c) == conns[c].destroyed

\* C23: for each session the callback that removes it from the table runs
\* at most once in the session's life: no step runs a removing callback of a
\* connection for which one has already run, whether the step is the close
\* event, the error event or the failed send of an in-flight request that
\* completes after the stream has closed.
C23_ClosureCallbackAtMostOnce ==
    [][\A c \in DOMAIN conns :
          RunsClosureCallback(c) => ~ClosureCallbackRan(c)]_vars

\* The response handleMessage builds when the handler POST p invoked settles
\* with outcome o.
ResponseOf(p, o) ==
    IF o = "returns"
    THEN SuccessResponse(posts[p].body, HandlerResult(posts[p].body.method))
    ELSE ErrorResponse(posts[p].body, Thrown(o))

\* C24: a send for a session that is not in the table writes nothing and
\* fails without an exception reaching the POST handler.  For every request
\* in flight whose session has left the table, the send of its response
\* reports the failure, handleMessage keeps it to itself and no stream
\* changes; the step that settles such a request leaves every stream and the
\* table as they were and the POST is answered 202; and no step ever adds
\* an event to a stream whose session is not in the table.
C24_AbsentSessionSendWritesNothing ==
    /\ [](\A p \in DOMAIN posts, o \in Outcomes :
            (posts[p].pc = "awaitHandler" /\ posts[p].sessionId \notin DOMAIN transports)
            => LET c == posts[p].transport
                   d == deliver(transports, conns, c, ResponseOf(p, o), p)
               IN  /\ send(conns[c], ResponseOf(p, o), p).threw
                   /\ send(conns[c], ResponseOf(p, o), p).t = conns[c]
                   /\ ~d.threw
                   /\ d.conns = conns
                   /\ d.transports = transports)
    /\ [][/\ \A p \in DOMAIN posts :
              (Settles(p) /\ posts[p].sessionId \notin DOMAIN transports)
              => /\ StreamsUnchanged
                 /\ TableUnchanged
                 /\ posts'[p].reply = Accepted
           /\ \A c \in DOMAIN conns' :
              (c \notin DOMAIN conns \/ conns'[c].stream # conns[c].stream)
              => /\ conns'[c].sessionId \in DOMAIN transports'
                 /\ c \in DOMAIN conns => conns[c].sessionId \in DOMAIN transports]_vars

\* Two requests of a session settled after the session had left the table:
\* neither left an event, both POSTs were answered 202.
C24_Witness ==
    \E p, q \in DOMAIN posts :
        /\ p < q
        /\ posts[p].sessionId = posts[q].sessionId
        /\ posts[p].sessionId \notin DOMAIN transports
        /\ \A r \in {p, q} :
              /\ posts[r].outcome # Absent
              /\ posts[r].reply = Accepted
              /\ \A ci \in Responses : EventAt(ci).post # r

\* The events that answer POST p.
ResponsesTo(p) ==
    UNION {{<<c, i>> : i \in {j \in DOMAIN conns[c].stream : conns[c].stream[j].post = p}} :
           c \in DOMAIN conns}

\* C25: an accepted envelope gets at most one invocation and at most one
\* response event.  Its handler is invoked at most once; at most one event
\* answers it; once its handler has settled, by returning or by throwing,
\* the request is done after that single invocation; and for a request that
\* is done nothing remains to run, whether its response was written or its
\* delivery failed: no retry, nothing buffered.
C25_AtMostOneInvocationAndResponse ==
    [](\A p \in DOMAIN posts :
           /\ posts[p].invoked <= 1
           /\ Cardinality(ResponsesTo(p)) <= 1
           /\ posts[p].outcome # Absent => posts[p].pc = "done" /\ posts[p].invoked = 1
           /\ posts[p].pc = "done" => \A o \in Outcomes : ~ENABLED HandlerSettles(p, o))

\* One request whose handler threw has its single error response, and
\* another was dropped at a closed stream; each was invoked once.
C25_Witness ==
    \E p, q \in DOMAIN posts :
        /\ posts[p].outcome = "throwsError" /\ posts[p].invoked = 1
        /\ Cardinality(ResponsesTo(p)) = 1
        /\ posts[q].outcome # Absent /\ posts[q].invoked = 1
        /\ conns[posts[q].transport].destroyed
        /\ ResponsesTo(q) = {}

\* The terminal states of a request: its one response is on the stream of
\* its session, or nothing was written for it and that stream is destroyed.
Sent(p) ==
    \E ci \in ResponsesTo(p) : ResponsesTo(p) = {ci} /\ ci[1] = posts[p].transport
Dropped(p) ==
    ResponsesTo(p) = {} /\ conns[posts[p].transport].destroyed

\* C26: a request whose invocation has completed is in exactly one terminal
\* state, having been received, validated and dispatched in that order.  A
\* handler is invoked only for a POST that found its session and whose body
\* passed validation and carries an id; an invocation that has completed was
\* made; a request is pending only while its invocation has not completed,
\* with nothing written and the POST unanswered; and once the invocation has
\* completed the request is done and is either sent or dropped, not both.
C26_CompletedRequestIsTerminal ==
    [](\A p \in DOMAIN posts :
           /\ posts[p].invoked = 1
              => /\ posts[p].transport # NoTransport
                 /\ conns[posts[p].transport].sessionId = posts[p].sessionId
                 /\ posts[p].body \in Requests
                 /\ posts[p].body.id # Absent
           /\ posts[p].pc = "awaitHandler"
              => /\ posts[p].invoked = 1
                 /\ posts[p].outcome = Absent
                 /\ ResponsesTo(p) = {}
                 /\ posts[p].reply = NoReply
           /\ posts[p].outcome # Absent
              => /\ posts[p].invoked = 1
                 /\ posts[p].pc = "done"
                 /\ Sent(p) # Dropped(p))

\* Of two requests whose invocations completed, one was sent and the other
\* dropped.
C26_Witness ==
    \E p, q \in DOMAIN posts :
        /\ posts[p].outcome # Absent /\ Sent(p)
        /\ posts[q].outcome # Absent /\ Dropped(q)

\* C27: a response is written no earlier than its own invocation completes,
\* and in no fixed order otherwise.  Every event that answers a request
\* whose handler was invoked is on the stream only when that invocation has
\* completed, and it carries what the invocation completed with; and when
\* two requests of one session are in flight, either of them can be settled
\* and answered next, the one accepted later as well as the earlier one.
C27_ResponseAfterOwnInvocation ==
    [](/\ \A ci \in Responses :
             LET p == EventAt(ci).post
             IN  posts[p].invoked = 1
                 => /\ posts[p].outcome # Absent
                    /\ EventAt(ci).message = ResponseOf(p, posts[p].outcome)
       /\ \A p, q \in DOMAIN posts :
             (/\ p < q
              /\ posts[p].pc = "awaitHandler" /\ posts[q].pc = "awaitHandler"
              /\ posts[p].transport = posts[q].transport)
             => \A o \in Outcomes :
                   ENABLED HandlerSettles(p, o) /\ ENABLED HandlerSettles(q, o))

\* On one stream the response to the request accepted later stands before
\* the response to the request accepted first.
C27_Witness ==
    \E ci, cj \in Responses :
        /\ ci[1] = cj[1] /\ ci[2] < cj[2]
        /\ EventAt(ci).post > EventAt(cj).post
        /\ posts[EventAt(ci).post].invoked = 1
        /\ posts[EventAt(cj).post].invoked = 1

\* POST p carried a request for a registered method to a session of the table.
Dispatchable(p) ==
    /\ posts[p].transport # NoTransport
    /\ posts[p].body \in Requests
    /\ posts[p].body.method \in Registered

\* C28: request ids are not tracked.  Of two requests that carry the same
\* id, under one session or under two, each has its handler invoked; while
\* one is pending it can be settled whatever has become of the other; and
\* once one has settled on a stream that is still open, exactly one event
\* answers it, on the stream of the session it was posted under, carrying
\* what its own invocation completed with.
C28_SameIdAnsweredIndependently ==
    [](\A p, q \in DOMAIN posts :
           (/\ p # q
            /\ posts[p].body.id = posts[q].body.id
            /\ Dispatchable(p) /\ Dispatchable(q))
           => /\ posts[p].invoked = 1
              /\ posts[p].pc = "awaitHandler"
                 => \A o \in Outcomes : ENABLED HandlerSettles(p, o)
              /\ \A ci \in ResponsesTo(p) :
                    /\ ci[1] = posts[p].transport
                    /\ EventAt(ci).message = ResponseOf(p, posts[p].outcome)
              /\ (posts[p].outcome # Absent /\ ~conns[posts[p].transport].destroyed)
                 => Cardinality(ResponsesTo(p)) = 1)

\* Two requests with the same id were in flight together under one session
\* and ended differently: the stream holds a result and an error with that
\* id, the later request's first.
C28_Witness ==
    \E ci, cj \in Responses :
        LET p == EventAt(ci).post
            q == EventAt(cj).post
        IN  /\ ci[1] = cj[1] /\ ci[2] < cj[2]
            /\ q < p
            /\ posts[p].body.id = posts[q].body.id
            /\ posts[p].invoked = 1 /\ posts[q].invoked = 1
            /\ EventAt(ci).message.id = EventAt(cj).message.id
            /\ EventAt(ci).message.result # Absent
            /\ EventAt(cj).message.error.present

\* C29: every response event carries exactly one of a result and an error:
\* never both, never neither; the handler's result and no error when the
\* invocation returned, an error and no result when the method resolved to
\* no handler or the invocation threw.
C29_ResultXorError ==
    [](\A ci \in Responses :
           LET m == EventAt(ci).message
               p == EventAt(ci).post
           IN  /\ (m.result # Absent) # m.error.present
               /\ posts[p].outcome = "returns"
                  => m.result = HandlerResult(posts[p].body.method) /\ ~m.error.present
               /\ (posts[p].invoked = 0 \/ posts[p].outcome = "throwsError")
                  => m.error.present /\ m.result = Absent)

\* The streams hold a result for a handler that returned and an error for a
\* method that resolved to no handler.
C29_Witness ==
    \E ci, cj \in Responses :
        /\ posts[EventAt(ci).post].outcome = "returns"
        /\ EventAt(ci).message.result # Absent
        /\ posts[EventAt(cj).post].invoked = 0
        /\ EventAt(cj).message.error.present

C31_CloseRemovesOnlyOwnEntry ==
    [][\A c \in DOMAIN conns :
          (ResponseClose(c) \/ ResponseError(c))
          => /\ DOMAIN transports \ DOMAIN transports' \subseteq {conns[c].sessionId}
             /\ conns[c].sessionId \notin DOMAIN transports'
             /\ \A k \in DOMAIN transports' :
                   k \in DOMAIN transports /\ transports'[k] = transports[k]
             /\ \A k \in DOMAIN conns \ {c} : conns'[k] = conns[k]
             /\ conns'[c].stream = conns[c].stream
             /\ posts' = posts
             /\ \A p \in DOMAIN posts, o \in Outcomes :
                   (posts[p].pc = "awaitHandler" /\ posts[p].transport # c
                    /\ posts[p].sessionId \in DOMAIN transports)
                   => LET k == posts[p].transport
                          d == deliver(transports', conns', k, ResponseOf(p, o), p)
                      IN  /\ posts[p].sessionId \in DOMAIN transports'
                          /\ d.conns[k].stream =
                                Append(conns[k].stream, Answer(ResponseOf(p, o), p))
                          /\ d.transports = transports']_vars

\* One session, with a request invoked under it, was closed and has left
\* the table; a request invoked under another session has its response on
\* that session's stream, and that session is still in the table.
C31_Witness ==
    \E c, k \in DOMAIN conns :
        /\ c # k
        /\ conns[c].closeEmitted /\ conns[c].sessionId \notin DOMAIN transports
        /\ conns[k].sessionId \in DOMAIN transports /\ ~conns[k].destroyed
        /\ \E p \in DOMAIN posts :
              /\ posts[p].transport = k /\ posts[p].invoked = 1
              /\ Sent(p)
        /\ \E q \in DOMAIN posts :
              /\ posts[q].transport = c /\ posts[q].invoked = 1

\* C32: a handler is called with the credential of its own POST.  Every
\* request whose handler was invoked carries, as what the handler was called
\* with, the x-api-key of the POST that submitted it (none when that POST
\* had none), whatever other requests of the same or of other sessions
\* carry; a POST that invoked no handler passed no credential on; and no
\* later step changes what a handler was called with.
C32_HandlerSeesOwnCredential ==
    /\ [](\A p \in DOMAIN posts :
            /\ posts[p].invoked = 1
               => posts[p].authInfo = [passed |-> TRUE, token |-> posts[p].token]
            /\ posts[p].invoked = 0 => ~posts[p].authInfo.passed)
    /\ [][\A p \in DOMAIN posts :
             /\ posts'[p].authInfo = posts[p].authInfo
             /\ posts'[p].token = posts[p].token]_vars

\* Under one session two requests are in flight, one submitted with a key
\* and one without; each handler was called with what its own POST carried.
C32_Witness ==
    \E p, q \in DOMAIN posts :
        /\ p < q
        /\ posts[p].pc = "awaitHandler" /\ posts[q].pc = "awaitHandler"
        /\ posts[p].transport = posts[q].transport
        /\ posts[p].token = "key1" /\ posts[q].token = Absent
        /\ posts[p].authInfo.token = "key1" /\ posts[q].authInfo.token = Absent

\* C33: whether a message is answered depends on its id alone.  A
\* schema-valid message posted to a session of the table is accepted with
\* 202; if it carries an id and no method, a response or an error by its
\* shape, no handler is invoked and one error event that echoes its id, with
\* the message "Unknown method: undefined" and no result, is written to that
\* session's stream; if it carries an id and a registered method it is
\* dispatched; and if it carries no id nothing is written and nothing is
\* invoked.
C33_DispatchKeyedOnIdOnly ==
    [][(Arrives /\ Arrived.sessionId \in DOMAIN transports
                /\ Arrived.body \in ShapeBodies)
       => LET c == transports[Arrived.sessionId]
              e == conns'[c].stream[Len(conns'[c].stream)]
          IN  /\ Arrived.body \in Replies
                 => /\ Arrived.reply = Accepted /\ Arrived.pc = "done"
                    /\ Arrived.invoked = 0
                    /\ conns'[c].stream = Append(conns[c].stream, e)
                    /\ e = Answer(ErrorOf(Arrived.body.id, InternalError,
                                          "Unknown method: undefined"), Len(posts'))
                    /\ \A k \in DOMAIN conns \ {c} : conns'[k] = conns[k]
              /\ (Arrived.body.id # Absent /\ Arrived.body.method \in Registered)
                 => Arrived.pc = "awaitHandler" /\ Arrived.invoked = 1
              /\ Arrived.body.id = Absent
                 => /\ Arrived.reply = Accepted /\ Arrived.pc = "done"
                    /\ Arrived.invoked = 0
                    /\ conns' = conns
              /\ TableUnchanged]_vars

\* A posted response and a posted error were each answered on the stream
\* with an error that echoes their id.
C33_Witness ==
    \E ci, cj \in Responses :
        LET p == EventAt(ci).post
            q == EventAt(cj).post
        IN  /\ posts[p].body \in Replies /\ posts[p].body.result # Absent
            /\ posts[q].body \in Replies /\ posts[q].body.error.present
            /\ \A e \in {EventAt(ci), EventAt(cj)} :
                  /\ e.message.id = "r"
                  /\ e.message.error.message = "Unknown method: undefined"
            /\ posts[p].reply = Accepted /\ posts[q].reply = Accepted
====
